---- MODULE Spec2Model ----
(***************************************************************************)
(* rotab: a longest-prefix-match table for IPv4 addresses (src/src/lib.rs). *)
(*                                                                         *)
(* Representation.  A dotted-quad string is the sequence of its decimal    *)
(* fields.  A parsed address (Ipv4Addr, and the u32 that to_bits() gives)  *)
(* is the sequence of its four bytes, most significant first: all          *)
(* arithmetic on it (xor, leading_zeros, and-with-2^pow-then-shift) is     *)
(* done on 32 bits exactly.  Rc<RefCell<Node>> cells live in a heap, a     *)
(* sequence of Node records in allocation order; an Rc is an index in it.  *)
(* Option<T> is <<>> (None) or <<x>> (Some(x)).                            *)
(***************************************************************************)
EXTENDS Integers, Sequences, FiniteSets

VARIABLES heap, heap2, calls, last, log, args

vars == <<heap, heap2, calls, last, log, args>>

\* ------------------------------------------------------------------ bounds

\* insert_range calls made on one table
MaxCalls == 3
\* insert_range calls that build the common table of the two-order experiment
MaxBase == 1
\* addresses taken on each side of the 10.0.0.255 / 10.0.1.0 boundary
Span == 4

\* ------------------------------------------------------- values and results

\* size_of::<u32>() * 8
W == 32

None == <<>>
Some(x) == <<x>>

Ok(v) == [ok |-> TRUE, val |-> v]
\* AddrParseError
Err == [ok |-> FALSE, val |-> <<>>]

\* Ipv4Addr::from_str(s)?.to_bits(): four decimal fields, each 0..=255
from_str(s) ==
    IF Len(s) = 4 /\ \A i \in 1..4 : s[i] \in 0..255
    THEN Ok(s)
    ELSE Err

RECURSIVE Xor8(_, _)
Xor8(a, b) ==
    IF a = 0 /\ b = 0 THEN 0
    ELSE (((a % 2) + (b % 2)) % 2) + 2 * Xor8(a \div 2, b \div 2)

\* u32::bitxor
bitxor(x, y) == [i \in 1..4 |-> Xor8(x[i], y[i])]

Lz8(a) == CHOOSE n \in 0..8 : a < 2 ^ (8 - n) /\ (n < 8 => a >= 2 ^ (7 - n))

\* u32::leading_zeros
leading_zeros(x) ==
    IF x[1] # 0 THEN Lz8(x[1])
    ELSE IF x[2] # 0 THEN 8 + Lz8(x[2])
    ELSE IF x[3] # 0 THEN 16 + Lz8(x[3])
    ELSE 24 + Lz8(x[4])

\* (ip).bitand(2_u32.pow(pow)) >> pow
BitAt(ip, pow) == (ip[4 - (pow \div 8)] \div (2 ^ (pow % 8))) % 2

\* ---------------------------------------------------------------- the code

\* Node::new
NodeNew == [edges |-> <<None, None>>, is_terminal |-> FALSE, dest |-> None]

\* Table::new: the root cell, Table.start
start_node == 1
TableNew == <<NodeNew>>

\* Table::ip_to_bit_vec
ip_to_bit_vec(ip) ==
    LET p == from_str(ip) IN
    IF ~p.ok THEN Err
    ELSE Ok([k \in 1..W |-> BitAt(p.val, W - (k - 1) - 1)])

\* a bug: the bits taken from the least significant end
PrefixBitLsbFirst(start_ip_bits, i) == BitAt(start_ip_bits, i)

\* the loop of Table::prefix: bit i (0-based) of the prefix
PrefixBit(start_ip_bits, i) == BitAt(start_ip_bits, W - i - 1)

\* a bug: the length the other way round, 32 - leading_zeros
PrefixLengthFromLow(start_ip_bits, end_ip_bits) ==
    W - leading_zeros(bitxor(start_ip_bits, end_ip_bits))

\* a bug: the first differing bit counted in
PrefixLengthOneMore(start_ip_bits, end_ip_bits) ==
    LET n == leading_zeros(bitxor(start_ip_bits, end_ip_bits))
    IN  IF n < W THEN n + 1 ELSE W

\* the length of the prefix
PrefixLength(start_ip_bits, end_ip_bits) ==
    leading_zeros(bitxor(start_ip_bits, end_ip_bits))

\* Table::prefix
prefix(start, end) ==
    LET s == from_str(start)
        e == from_str(end)
    IN  IF ~s.ok THEN Err
        ELSE IF ~e.ok THEN Err
        ELSE LET prefix_length == PrefixLength(s.val, e.val)
             IN  Ok([k \in 1..prefix_length |-> PrefixBit(s.val, k - 1)])

\* a bug: the edge never seen, so that every step allocates and rewires
ExistingEdgeNone(node, bit_idx) == None

\* if let Some(next) = &node.edges[bit_idx]
ExistingEdge(node, bit_idx) == node.edges[bit_idx]

\* the loop of Table::insert_range, from cell curr_node over the bits left
RECURSIVE InsertWalk(_, _, _)
InsertWalk(h, curr_node, bits) ==
    IF bits = <<>> THEN [heap |-> h, curr_node |-> curr_node]
    ELSE LET bit_idx == Head(bits) + 1
             e == ExistingEdge(h[curr_node], bit_idx)
         IN  IF e # None
             THEN InsertWalk(h, e[1], Tail(bits))
             ELSE LET next_node == Len(h) + 1
                      h2 == Append([h EXCEPT ![curr_node].edges[bit_idx] =
                                                 Some(next_node)], NodeNew)
                  IN  InsertWalk(h2, next_node, Tail(bits))

\* a bug: is_terminal set before the destination is parsed
MarkTerminalEarly(h, curr_node, dest) ==
    LET d == from_str(dest) IN
    IF ~d.ok THEN [heap |-> [h EXCEPT ![curr_node].is_terminal = TRUE], res |-> Err]
    ELSE [heap |-> [h EXCEPT ![curr_node].dest = Some(d.val),
                             ![curr_node].is_terminal = TRUE],
          res |-> Ok(<<>>)]

\* a bug: the cell cleared before the destination is parsed
MarkTerminalClears(h, curr_node, dest) ==
    LET d == from_str(dest) IN
    IF ~d.ok THEN [heap |-> [h EXCEPT ![curr_node].dest = None,
                                      ![curr_node].is_terminal = FALSE],
                   res |-> Err]
    ELSE [heap |-> [h EXCEPT ![curr_node].dest = Some(d.val),
                             ![curr_node].is_terminal = TRUE],
          res |-> Ok(<<>>)]

\* a bug: dest written, is_terminal forgotten
MarkTerminalNoFlag(h, curr_node, dest) ==
    LET d == from_str(dest) IN
    IF ~d.ok THEN [heap |-> h, res |-> Err]
    ELSE [heap |-> [h EXCEPT ![curr_node].dest = Some(d.val)], res |-> Ok(<<>>)]

\* a bug: a cell that is terminal already keeps its dest
MarkTerminalFirstWins(h, curr_node, dest) ==
    LET d == from_str(dest) IN
    IF ~d.ok THEN [heap |-> h, res |-> Err]
    ELSE IF h[curr_node].is_terminal THEN [heap |-> h, res |-> Ok(<<>>)]
    ELSE [heap |-> [h EXCEPT ![curr_node].dest = Some(d.val),
                             ![curr_node].is_terminal = TRUE],
          res |-> Ok(<<>>)]

\* a bug: the endpoint replaced by a new terminal cell, its edges lost
MarkTerminalReset(h, curr_node, dest) ==
    LET d == from_str(dest) IN
    IF ~d.ok THEN [heap |-> h, res |-> Err]
    ELSE [heap |-> [h EXCEPT ![curr_node] =
                        [edges |-> <<None, None>>, is_terminal |-> TRUE,
                         dest |-> Some(d.val)]],
          res |-> Ok(<<>>)]

\* the end of Table::insert_range: the destination is parsed first, and the
\* cell is written only when it parses
MarkTerminal(h, curr_node, dest) ==
    LET d == from_str(dest) IN
    IF ~d.ok THEN [heap |-> h, res |-> Err]
    ELSE [heap |-> [h EXCEPT ![curr_node].dest = Some(d.val),
                             ![curr_node].is_terminal = TRUE],
          res |-> Ok(<<>>)]

\* Table::insert_range
insert_range(h, start, end, dest) ==
    LET p == prefix(start, end) IN
    IF ~p.ok THEN [heap |-> h, res |-> Err]
    ELSE LET w == InsertWalk(h, start_node, p.val)
         IN  MarkTerminal(w.heap, w.curr_node, dest)

\* the initial dst of Table::lookup
RootDst(h) ==
    LET n == h[start_node] IN IF n.is_terminal THEN n.dest ELSE None

\* a bug: the first terminal cell met wins
DescendKeepFirst(next, dst) ==
    IF dst # None THEN dst ELSE IF next.is_terminal THEN next.dest ELSE None

\* dst after descending into the cell next
Descend(next, dst) == IF next.is_terminal THEN next.dest ELSE dst

\* the loop of Table::lookup
RECURSIVE LookupWalk(_, _, _, _)
LookupWalk(h, curr_node, bits, dst) ==
    IF bits = <<>> THEN dst
    ELSE LET e == h[curr_node].edges[Head(bits) + 1]
         IN  IF e = None THEN dst
             ELSE LookupWalk(h, e[1], Tail(bits), Descend(h[e[1]], dst))

\* Table::lookup
lookup(h, ip) ==
    LET b == ip_to_bit_vec(ip) IN
    IF ~b.ok THEN Err
    ELSE Ok(LookupWalk(h, start_node, b.val, RootDst(h)))

\* ------------------------------------------------------------------ inputs

\* strings that are no address: a field above 255, a missing field
BadStrs == { <<256, 0, 0, 1>>, <<10, 0, 1>> }

Valid(s) == from_str(s).ok

\* the ranges given to insert_range: the default route, the nested ranges of
\* the tests, a host route, the /24 with its ends swapped, and ranges with an
\* end that does not parse
Ranges ==
    { << <<0, 0, 0, 0>>, <<255, 255, 255, 255>> >>,
      << <<10, 0, 0, 0>>, <<10, 1, 255, 255>> >>,
      << <<10, 0, 1, 0>>, <<10, 0, 1, 255>> >>,
      << <<10, 0, 1, 255>>, <<10, 0, 1, 0>> >>,
      << <<10, 0, 1, 1>>, <<10, 0, 1, 1>> >>,
      << <<256, 0, 0, 1>>, <<10, 0, 1, 255>> >>,
      << <<10, 0, 1, 0>>, <<10, 0, 1>> >> }

Dests == { <<192, 168, 0, 0>>, <<192, 168, 0, 1>>, <<192, 168, 0, 256>> }

\* the valid addresses looked up
QueryAddrs ==
    { <<10, 0, 1, 1>>, <<10, 0, 1, 2>>, <<10, 0, 0, 1>>, <<10, 2, 0, 1>>,
      <<192, 168, 1, 1>> }

\* the strings given to lookup calls: two of these addresses and a string
\* that is no address
Queries == { <<10, 0, 1, 1>>, <<10, 0, 0, 1>>, <<10, 0, 1>> }

\* the addresses on both sides of the 10.0.0.255 / 10.0.1.0 boundary: a run
\* of 2 * Span consecutive addresses
Block ==
    { <<10, 0, 0, o>> : o \in (256 - Span)..255 } \cup
    { <<10, 0, 1, o>> : o \in 0..(Span - 1) }

\* the strings given to prefix, and to insert_range on a new table
ArgStrs ==
    Block \cup BadStrs \cup
    { <<0, 0, 0, 0>>, <<255, 255, 255, 255>>, <<127, 255, 255, 255>>,
      <<128, 0, 0, 0>>, <<10, 1, 255, 255>>, <<192, 168, 1, 1>> }

ArgDests == { <<192, 168, 0, 1>>, <<192, 168, 0, 256>> }

\* the routes of the two-order experiment: strings that all parse
Routes ==
    { <<r[1], r[2], d>> : r \in { x \in Ranges : Valid(x[1]) /\ Valid(x[2]) },
                          d \in { y \in Dests : Valid(y) } }

\* ------------------------------------------------------- the table's life

Init ==
    /\ heap = TableNew
    /\ heap2 = TableNew
    /\ calls = 0
    /\ last = [op |-> "new", args |-> <<>>, res |-> Ok(<<>>)]
    /\ log = <<>>
    /\ args = <<>>

\* a call of insert_range; log keeps the <<prefix, dest>> of the calls that
\* returned Ok, in order
CallInsertRange(start, end, dest) ==
    /\ calls < MaxCalls
    /\ LET r == insert_range(heap, start, end, dest) IN
       /\ heap' = r.heap
       /\ last' = [op |-> "insert_range", args |-> <<start, end, dest>>,
                   res |-> r.res]
       /\ log' = IF r.res.ok
                 THEN Append(log, <<prefix(start, end).val, from_str(dest).val>>)
                 ELSE log
    /\ calls' = calls + 1
    /\ UNCHANGED <<heap2, args>>

\* a call of lookup
CallLookup(ip) ==
    /\ last' = [op |-> "lookup", args |-> <<ip>>, res |-> lookup(heap, ip)]
    /\ UNCHANGED <<heap, heap2, calls, log, args>>

Next ==
    \/ \E r \in Ranges, d \in Dests : CallInsertRange(r[1], r[2], d)
    \/ \E q \in Queries : CallLookup(q)

Spec == Init /\ [][Next]_vars

\* ------------------------------------- prefix and insert_range on new tables

InitArgs ==
    /\ heap = TableNew
    /\ heap2 = TableNew
    /\ calls = 0
    /\ last = [op |-> "new", args |-> <<>>, res |-> Ok(<<>>)]
    /\ log = <<>>
    /\ args \in ArgStrs \X ArgStrs \X ArgDests

\* prefix(start, end) on the strings drawn
ArgsPrefix ==
    /\ last.op = "new"
    /\ last' = [op |-> "prefix", args |-> <<args[1], args[2]>>,
                res |-> prefix(args[1], args[2])]
    /\ UNCHANGED <<heap, heap2, calls, log, args>>

\* insert_range(start, end, dest) on the new table
ArgsInsertRange ==
    /\ last.op = "new"
    /\ LET r == insert_range(heap, args[1], args[2], args[3]) IN
       /\ heap' = r.heap
       /\ last' = [op |-> "insert_range", args |-> args, res |-> r.res]
       /\ log' = IF r.res.ok
                 THEN Append(log, <<prefix(args[1], args[2]).val,
                                    from_str(args[3]).val>>)
                 ELSE log
    /\ calls' = calls + 1
    /\ UNCHANGED <<heap2, args>>

NextArgs == ArgsPrefix \/ ArgsInsertRange

SpecArgs == InitArgs /\ [][NextArgs]_vars

\* --------------------------------------------- two tables, the two orders

\* the same call on both tables: the table the two routes are added to
CommBase(start, end, dest) ==
    /\ args = <<>>
    /\ calls < MaxBase
    /\ heap' = insert_range(heap, start, end, dest).heap
    /\ heap2' = insert_range(heap2, start, end, dest).heap
    /\ calls' = calls + 1
    /\ UNCHANGED <<last, log, args>>

\* route A then route B on the first table, B then A on the second
CommPair(A, B) ==
    /\ args = <<>>
    /\ LET t1 == insert_range(heap, A[1], A[2], A[3])
           t2 == insert_range(heap2, B[1], B[2], B[3])
       IN  /\ heap' = insert_range(t1.heap, B[1], B[2], B[3]).heap
           /\ heap2' = insert_range(t2.heap, A[1], A[2], A[3]).heap
    /\ args' = <<A, B>>
    /\ calls' = calls + 2
    /\ UNCHANGED <<last, log>>

NextComm ==
    \/ \E r \in Ranges, d \in Dests : CommBase(r[1], r[2], d)
    \/ \E A \in Routes, B \in Routes : CommPair(A, B)

SpecComm == Init /\ [][NextComm]_vars

\* ------------------------------------------------- what the claims speak of

\* the bits of an address, most significant first, byte by byte
ByteBits(b) == [k \in 1..8 |-> (b \div (2 ^ (8 - k))) % 2]
AddrBits(a) == ByteBits(a[1]) \o ByteBits(a[2]) \o ByteBits(a[3]) \o ByteBits(a[4])

\* p is a leading-bit match of the bit sequence b
IsLeading(p, b) == Len(p) <= Len(b) /\ \A i \in 1..Len(p) : p[i] = b[i]

\* the prefixes stored by the calls in l that returned Ok, and the
\* destination last given for one of them
StoredIn(l) == { l[i][1] : i \in 1..Len(l) }
DestIn(l, p) ==
    l[CHOOSE i \in 1..Len(l) :
        l[i][1] = p /\ \A j \in (i + 1)..Len(l) : l[j][1] # p][2]

\* the stored prefixes matching address q, and the longest of them
MatchesIn(l, q) == { p \in StoredIn(l) : IsLeading(p, AddrBits(q)) }
LongestIn(l, q) ==
    CHOOSE p \in MatchesIn(l, q) : \A r \in MatchesIn(l, q) : Len(r) <= Len(p)

\* longest-prefix match of q over the routes of l
LPM(l, q) ==
    IF MatchesIn(l, q) = {} THEN None ELSE Some(DestIn(l, LongestIn(l, q)))

\* the cell reached from cell n by the bits, 0 when an edge is missing
RECURSIVE NodeAtFrom(_, _, _)
NodeAtFrom(h, n, bits) ==
    IF bits = <<>> THEN n
    ELSE LET e == h[n].edges[Head(bits) + 1]
         IN  IF e = None THEN 0 ELSE NodeAtFrom(h, e[1], Tail(bits))

NodeAt(h, p) == NodeAtFrom(h, start_node, p)

\* the cells on the path of p as far as it exists, the root included
RECURSIVE PathFrom(_, _, _)
PathFrom(h, n, bits) ==
    IF bits = <<>> THEN {n}
    ELSE LET e == h[n].edges[Head(bits) + 1]
         IN  IF e = None THEN {n} ELSE {n} \cup PathFrom(h, e[1], Tail(bits))

PathNodes(h, p) == PathFrom(h, start_node, p)

\* the last call was insert_range with these properties of its strings
LastInsert == last.op = "insert_range"
LastPrefix == prefix(last.args[1], last.args[2])
LastBadDest ==
    LastInsert /\ Valid(last.args[1]) /\ Valid(last.args[2]) /\ ~Valid(last.args[3])

\* ------------------------------------------------------------------ claims

\* C1: after any sequence of insert_range calls, lookup(q) of a valid address
\* q is Some(d) with d the destination currently stored for the longest stored
\* prefix that is a leading-bit match of q, and None exactly when no stored
\* prefix matches q.
C1_LongestPrefixMatch ==
    \A q \in QueryAddrs : lookup(heap, q) = Ok(LPM(log, q))

\* a lookup answered by the longer of two nested routes with different
\* destinations, in a table where another address matches nothing
C1_Witness ==
    /\ last.op = "lookup"
    /\ Valid(last.args[1])
    /\ \E p \in MatchesIn(log, last.args[1]) :
          /\ Len(p) < Len(LongestIn(log, last.args[1]))
          /\ DestIn(log, p) # DestIn(log, LongestIn(log, last.args[1]))
    /\ last.res = Ok(Some(DestIn(log, LongestIn(log, last.args[1]))))
    /\ \E q \in QueryAddrs : lookup(heap, q) = Ok(None)

\* C8: in every reachable state every cell of the trie, the root included,
\* has dest.is_some() == is_terminal.
C8_DestIffTerminal ==
    \A i \in 1..Len(heap) : (heap[i].dest # None) = heap[i].is_terminal

\* after a call that failed on dest, a table with terminal and non-terminal
\* cells, the endpoint of the failed call among the latter
C8_Witness ==
    /\ LastBadDest
    /\ \E i \in 1..Len(heap) : heap[i].is_terminal /\ heap[i].dest # None
    /\ ~heap[NodeAt(heap, LastPrefix.val)].is_terminal
    /\ heap[NodeAt(heap, LastPrefix.val)].dest = None

\* C6: inserting a prefix that is stored already succeeds and the last write
\* wins: the cell of the prefix is terminal with the new destination, and
\* every lookup whose longest matching stored prefix it is returns the new
\* destination.
C6_LastWriteWins ==
    (/\ LastInsert
     /\ \A k \in 1..3 : Valid(last.args[k])
     /\ LastPrefix.val \in
            StoredIn(IF last.res.ok THEN SubSeq(log, 1, Len(log) - 1) ELSE log))
    => /\ last.res = Ok(<<>>)
       /\ NodeAt(heap, LastPrefix.val) # 0
       /\ heap[NodeAt(heap, LastPrefix.val)].is_terminal
       /\ heap[NodeAt(heap, LastPrefix.val)].dest = Some(from_str(last.args[3]).val)
       /\ \A q \in QueryAddrs :
             (MatchesIn(log, q) # {} /\ LongestIn(log, q) = LastPrefix.val)
             => lookup(heap, q) = Ok(Some(from_str(last.args[3]).val))

\* the same prefix inserted with one destination, then another prefix, then
\* the same prefix with another destination, which a lookup now returns
C6_Witness ==
    /\ LastInsert
    /\ Len(log) = 3
    /\ log[1][1] = log[3][1]
    /\ log[2][1] # log[3][1]
    /\ log[1][2] # log[3][2]
    /\ \E q \in QueryAddrs :
          /\ LongestIn(log, q) = log[3][1]
          /\ lookup(heap, q) = Ok(Some(log[3][2]))

\* the step is a call of insert_range (calls counts them)
InsertStep == calls' = calls + 1 /\ last'.op = "insert_range"
StepPrefix == prefix(last'.args[1], last'.args[2])

\* C5: insert_range with valid start and end and a dest that does not parse
\* returns the parse error, leaves every cell of the prefix's path in the
\* trie, and does not mark the endpoint: its is_terminal and dest are what
\* they were (non-terminal, no dest, when the call created it).
C5_BadDestStep ==
    (/\ InsertStep
     /\ Valid(last'.args[1]) /\ Valid(last'.args[2]) /\ ~Valid(last'.args[3]))
    => LET p == StepPrefix.val
           old == NodeAt(heap, p)
           new == NodeAt(heap', p)
       IN  /\ last'.res = Err
           /\ Cardinality(PathNodes(heap', p)) = Len(p) + 1
           /\ new # 0
           /\ IF old # 0
              THEN /\ new = old
                   /\ heap'[new].is_terminal = heap[old].is_terminal
                   /\ heap'[new].dest = heap[old].dest
              ELSE /\ new > Len(heap)
                   /\ ~heap'[new].is_terminal
                   /\ heap'[new].dest = None

C5_BadDestLeavesPath == [][C5_BadDestStep]_vars

\* after a successful insert, a call that failed on dest and left a new,
\* unmarked cell at the end of its path
C5_Witness ==
    /\ LastBadDest
    /\ last.res = Err
    /\ Len(log) > 0
    /\ Len(LastPrefix.val) > 0
    /\ LastPrefix.val \notin StoredIn(log)
    /\ NodeAt(heap, LastPrefix.val) # 0
    /\ heap[NodeAt(heap, LastPrefix.val)] = NodeNew

\* C9: the trie only grows: insert_range creates at most len(prefix) cells,
\* all on the path of its prefix, removes none, leaves every existing edge
\* as it is, and leaves is_terminal and dest of every cell but the endpoint
\* of that path unchanged; lookup changes no cell.
C9_GrowStep ==
    /\ InsertStep =>
         LET pr == StepPrefix
             p == IF pr.ok THEN pr.val ELSE <<>>
             end_node == IF pr.ok THEN NodeAt(heap', p) ELSE 0
         IN  /\ Len(heap') >= Len(heap)
             /\ Len(heap') - Len(heap) <= Len(p)
             /\ ~pr.ok => heap' = heap
             /\ (Len(heap) + 1)..Len(heap') \subseteq PathNodes(heap', p)
             /\ \A i \in 1..Len(heap), b \in 1..2 :
                   heap[i].edges[b] # None => heap'[i].edges[b] = heap[i].edges[b]
             /\ \A i \in (1..Len(heap')) \ {end_node} :
                   LET was == IF i <= Len(heap) THEN heap[i] ELSE NodeNew
                   IN  /\ heap'[i].is_terminal = was.is_terminal
                       /\ heap'[i].dest = was.dest
    /\ last'.op = "lookup" => heap' = heap

C9_TrieOnlyGrows == [][C9_GrowStep]_vars

\* a successful insert of a route below a stored, shorter route: its path
\* runs through existing cells and then through cells it created
C9_Witness ==
    /\ LastInsert /\ last.res.ok
    /\ Len(log) >= 2
    /\ Len(log[1][1]) > 0
    /\ Len(log[1][1]) < Len(log[Len(log)][1])
    /\ IsLeading(log[1][1], log[Len(log)][1])
    /\ Len(heap) = Len(log[Len(log)][1]) + 1

\* C10: an insert_range that returns the parse error is invisible to lookups:
\* every valid query returns what it returned before the call, whichever
\* string was invalid; when start or end is the invalid one the trie is
\* unchanged altogether.
C10_FailedStep ==
    (InsertStep /\ ~last'.res.ok)
    => /\ \A q \in QueryAddrs : lookup(heap', q) = lookup(heap, q)
       /\ (~Valid(last'.args[1]) \/ ~Valid(last'.args[2])) => heap' = heap

C10_FailedInsertInvisible == [][C10_FailedStep]_vars

\* a call that failed on dest under a stored route: it added cells on the
\* path of an address whose lookup still returns the stored route's dest
C10_Witness ==
    /\ LastBadDest
    /\ Len(log) > 0
    /\ Len(heap) > Len(log[1][1]) + 1
    /\ \E q \in QueryAddrs :
          /\ IsLeading(LastPrefix.val, AddrBits(q))
          /\ Len(LongestIn(log, q)) < Len(LastPrefix.val)
          /\ lookup(heap, q) = Ok(Some(DestIn(log, LongestIn(log, q))))

\* ----------------------------------------------- claims on prefix and ranges

\* the last call was prefix(start, end) on strings that parse
LastPrefixCall ==
    last.op = "prefix" /\ Valid(last.args[1]) /\ Valid(last.args[2])

\* the number of leading bits on which the bit sequences a and b agree
CommonRun(a, b) ==
    CHOOSE n \in 0..Len(a) :
        /\ \A i \in 1..n : a[i] = b[i]
        /\ n < Len(a) => a[n + 1] # b[n + 1]

\* the number of leading zero bits of start XOR end, bit by bit
XorBits(a, b) == [i \in 1..Len(a) |-> IF a[i] = b[i] THEN 0 ELSE 1]
LeadingZeroCount(x) ==
    CHOOSE n \in 0..Len(x) :
        /\ \A i \in 1..n : x[i] = 0
        /\ n < Len(x) => x[n + 1] = 1

\* C3: prefix(start, end) is the longest run of leading bits on which start
\* and end agree, as the leading bits of start, most significant first, each
\* 0 or 1: all 32 bits when start = end, none for 0.0.0.0 .. 255.255.255.255.
C3_PrefixIsCommonRun ==
    LastPrefixCall =>
      LET sb == AddrBits(last.args[1])
          eb == AddrBits(last.args[2])
      IN  /\ last.res.ok
          /\ last.res.val = SubSeq(sb, 1, CommonRun(sb, eb))
          /\ \A i \in 1..Len(last.res.val) : last.res.val[i] \in {0, 1}
          /\ last.args[1] = last.args[2] => last.res.val = sb
          /\ (last.args[1] = <<0, 0, 0, 0>> /\ last.args[2] = <<255, 255, 255, 255>>)
             => last.res.val = <<>>

\* prefix called on two addresses that differ inside the last byte but one
C3_Witness ==
    /\ LastPrefixCall
    /\ last.args[1] = <<10, 0, 0, 255>>
    /\ last.args[2] = <<10, 0, 1, 0>>
    /\ Len(last.res.val) = 23
    /\ last.res.val = SubSeq(AddrBits(<<10, 0, 0, 0>>), 1, 23)

\* C4 as stated: the length of prefix(start, end) is
\* 32 - leading_zero_count(start XOR end).
C4_Original ==
    LastPrefixCall =>
      Len(last.res.val) =
        W - LeadingZeroCount(XorBits(AddrBits(last.args[1]), AddrBits(last.args[2])))

\* C4, amended: the length of prefix(start, end) is
\* leading_zero_count(start XOR end) over 32 bits.
C4_LengthIsLeadingZeros ==
    LastPrefixCall =>
      Len(last.res.val) =
        LeadingZeroCount(XorBits(AddrBits(last.args[1]), AddrBits(last.args[2])))

\* prefix called on equal addresses: the XOR is 0, with 32 leading zeros
C4_Witness ==
    /\ LastPrefixCall
    /\ last.args[1] = last.args[2]
    /\ Len(last.res.val) = 32

\* numeric order of addresses
Lt(a, b) == \E i \in 1..4 : a[i] < b[i] /\ \A j \in 1..(i - 1) : a[j] = b[j]
Leq(a, b) == a = b \/ Lt(a, b)
Between(a, x, b) == (Leq(a, x) /\ Leq(x, b)) \/ (Leq(b, x) /\ Leq(x, a))

\* the address with the given 32 bits
FromBits(b) ==
    [i \in 1..4 |->
        128 * b[8 * i - 7] + 64 * b[8 * i - 6] + 32 * b[8 * i - 5] + 16 * b[8 * i - 4]
        + 8 * b[8 * i - 3] + 4 * b[8 * i - 2] + 2 * b[8 * i - 1] + b[8 * i]]

\* start with the bits below the first n all set
LowBitsSet(a, n) ==
    FromBits([i \in 1..W |-> IF i <= n THEN AddrBits(a)[i] ELSE 1])

\* the last call was insert_range, on a new table, of a range inside Block
\* with a dest that parses
LastBlockInsert ==
    /\ LastInsert /\ last.res.ok /\ Len(log) = 1
    /\ last.args[1] \in Block /\ last.args[2] \in Block

\* the range is misaligned or inverted
Misaligned(start, end) ==
    \/ end # LowBitsSet(start, Len(prefix(start, end).val))
    \/ Lt(end, start)

\* C7 as stated: for a misaligned or inverted range some address between the
\* endpoints lacks the prefix as its leading bits, and its lookup after the
\* insert on an empty table does not return dest.
C7_Original ==
    (LastBlockInsert /\ Misaligned(last.args[1], last.args[2]))
    => \E x \in Block :
          /\ Between(last.args[1], x, last.args[2])
          /\ ~IsLeading(LastPrefix.val, AddrBits(x))
          /\ lookup(heap, x) # Ok(Some(from_str(last.args[3]).val))

\* C7, amended: the prefix of any range, misaligned or inverted included,
\* covers every address between the endpoints, whose lookup returns dest; for
\* a misaligned range with start <= end it covers more: start with the low
\* bits set lies above end and its lookup returns dest too.
C7_PrefixCoversRange ==
    LastBlockInsert =>
      /\ \A x \in Block :
            Between(last.args[1], x, last.args[2])
            => /\ IsLeading(LastPrefix.val, AddrBits(x))
               /\ lookup(heap, x) = Ok(Some(from_str(last.args[3]).val))
      /\ (Misaligned(last.args[1], last.args[2]) /\ Leq(last.args[1], last.args[2]))
         => LET y == LowBitsSet(last.args[1], Len(LastPrefix.val))
            IN  /\ Lt(last.args[2], y)
                /\ lookup(heap, y) = Ok(Some(from_str(last.args[3]).val))

\* a misaligned range across the byte boundary, inserted on the new table
C7_Witness ==
    /\ LastBlockInsert
    /\ Misaligned(last.args[1], last.args[2])
    /\ Lt(last.args[1], <<10, 0, 0, 255>>)
    /\ Lt(<<10, 0, 1, 0>>, last.args[2])
    /\ Len(LastPrefix.val) = 23

\* ------------------------------------------------ claims on the two orders

PairDone == args # <<>>
PrefixOfRoute(r) == prefix(r[1], r[2]).val

\* C2 as stated: for any two routes and any reachable table, A then B and
\* B then A give tables on which every valid query has the same result.
C2_Original ==
    PairDone => \A q \in QueryAddrs : lookup(heap, q) = lookup(heap2, q)

\* C2, amended: the two orders agree on every valid query when the two routes
\* reduce to different prefixes or have the same destination.
C2_OrderIndependent ==
    (/\ PairDone
     /\ \/ PrefixOfRoute(args[1]) # PrefixOfRoute(args[2])
        \/ from_str(args[1][3]) = from_str(args[2][3]))
    => \A q \in QueryAddrs : lookup(heap, q) = lookup(heap2, q)

\* two nested routes with different destinations, added in both orders: one
\* query is answered by the shorter, another by the longer
C2_Witness ==
    /\ PairDone
    /\ Len(PrefixOfRoute(args[1])) < Len(PrefixOfRoute(args[2]))
    /\ IsLeading(PrefixOfRoute(args[1]), PrefixOfRoute(args[2]))
    /\ args[1][3] # args[2][3]
    /\ \E q1 \in QueryAddrs, q2 \in QueryAddrs :
          /\ lookup(heap, q1) = Ok(Some(from_str(args[1][3]).val))
          /\ lookup(heap2, q1) = lookup(heap, q1)
          /\ lookup(heap, q2) = Ok(Some(from_str(args[2][3]).val))
          /\ lookup(heap2, q2) = lookup(heap, q2)

====
